---- MODULE Spec2Model ----
(***************************************************************************)
(* Checkpoint download pipeline of master/internal/core_checkpoint.go:     *)
(* the sequential offset-write adapter (seqWriterAt), the delay buffer     *)
(* (delayWriter), the closer chain of the archive writers                  *)
(* (archiveClosers) and the paged batch download (batchDownloadIterator,   *)
(* s3Downloader.download), the request handler (Master.getCheckpoint) and  *)
(* the two archive writers (tarArchiveWriter, zipArchiveWriter).           *)
(*                                                                         *)
(* Each component has its own specification over its own variables; the    *)
(* variables of the other components are held at their initial values.     *)
(***************************************************************************)
EXTENDS Integers, Sequences, FiniteSets, TLC

\* ---------------------------------------------------------------------
\* Bounds
\* ---------------------------------------------------------------------
MaxByte == 1        \* bytes are 0..MaxByte
MaxLen == 2         \* longest payload of one Write / WriteAt call
MaxCalls == 3       \* number of WriteAt calls on one adapter
MaxOff == 4         \* largest offset argument tried
MaxDelayBytes == 3  \* largest delayBytes a delayWriter is built with
MaxWrites == 3      \* number of Write calls on one delayWriter
MaxPipeWrites == 2  \* number of writes the encoders make before the pipeline is closed
MaxCloses == 2      \* number of Close calls on one pipeline
MaxPages == 2       \* listing pages of one download
MaxObjects == 2     \* objects in one listing page
MaxSuffix == 1      \* characters of an object key after the listing prefix
MaxSize == 1        \* largest object size; a transfer writes one byte per WriteAt
MaxPath == 2        \* characters of a path given to WriteHeader
MaxAwCalls == 3     \* calls made on one archive writer

Byte == 0..MaxByte
Payloads == UNION {[1..n -> Byte] : n \in 0..MaxLen}

\* error values: "nil" is Go's nil error
ErrNil == "nil"
ErrOrder == "only supporting sequential writes"
ErrIO == "io"

\* An io.Writer result (n, err).  A writer either takes all of p, or fails
\* after having taken the first n bytes of p, 0 <= n <= len(p).
WriterOutcomes(p) ==
    {[n |-> Len(p), err |-> ErrNil]} \cup {[n |-> k, err |-> ErrIO] : k \in 0..Len(p)}

VARIABLES
    \* --- seqWriterAt ---
    written,        \* seqWriterAt.written
    seqDest,        \* bytes the destination (seqWriterAt.next) has taken, in order
    seqCalls,       \* number of WriteAt calls made
    seqPresented,   \* concatenation of the payloads of all WriteAt calls
    seqInOrder,     \* every call so far had off = sum of earlier lengths and a full write
    seqReported,    \* sum of the counts n the destination reported
    seqLast         \* the last WriteAt call: arguments, result, state before

VARIABLES
    \* --- delayWriter ---
    delayBytes,     \* delayWriter.delayBytes
    buf,            \* delayWriter.buf, the bytes held back (<<>> when bufNil)
    bufNil,         \* delayWriter.buf == nil
    dwOut,          \* the calls of next.Write made so far, in order
    dwCalls,        \* number of Write calls made on the delayWriter
    dwAccepted,     \* concatenation of the payloads of all Write calls
    dwCrossAt,      \* index of the Write call that brought Len(dwAccepted) to delayBytes, 0 before
    dwClosed,       \* number of Close calls made on the delayWriter
    dwFailed,       \* some next.Write has returned an error
    dwLast          \* the last Write/Close call: arguments, result, state before

VARIABLES
    \* --- archiveClosers of a pipeline built by buildWriterPipeline ---
    mimeType,       \* the mimeType the pipeline was built for
    closers,        \* archiveClosers.closers, in acquisition order
    encState,       \* per encoder: "open", "closed" or "failed" (its Close returned an error)
    closePc,        \* "idle", or "loop" while archiveClosers.Close runs
    closeI,         \* the loop variable i of archiveClosers.Close (Go index, from 0)
    closeLog,       \* the Close calls made on the closers, in order
    closeRet        \* what each archiveClosers.Close call returned, in order

VARIABLES
    \* --- s3Downloader.download, batchDownloadIterator ---
    region,         \* what getS3BucketRegion returned: "unset" before, "" or a region name
    cancelled,      \* the request's context is cancelled
    storagePrefix,  \* *storage.Prefix() of the S3Config
    dPrefix,        \* s3Downloader.prefix
    pc,             \* "region": in getS3BucketRegion; "session": before the second
                    \* session.NewSession; "panic": download ended in a run-time panic;
                    \* "list": between listing pages; "next": DownloadWithIterator is about
                    \* to call iter.Next(); "transfer": an object is being downloaded; "done"
    pageNo,         \* number of listing pages handed to funcReadPage
    lastPage,       \* the lastPage flag of the current page
    objects,        \* batchDownloadIterator.objects
    pos,            \* batchDownloadIterator.pos
    iterErr,        \* batchDownloadIterator.err
    iterPrefix,     \* batchDownloadIterator.prefix
    task,           \* the BatchDownloadObject being downloaded
    batchErrs,      \* the errors DownloadWithIterator has collected for this page
    merr,           \* merr, the errors appended so far
    awCall,         \* the call the last step made on the archive writer (WriteHeader or
                    \* Write) with its arguments and result, NoCall when it made none
    lastHeader,     \* the object (page, index) and result of the last WriteHeader call
    result,         \* what download returned
    raised,         \* the errors that arose during paging, each with its page, in order
    archive,        \* entries (successful WriteHeader calls) and body bytes the archive
                    \* writer has taken
    listed          \* objects, and the sum of their sizes, of the pages listed so far

VARIABLES
    \* --- one request in Master.getCheckpoint ---
    reqMime,        \* the mimeType argument
    reqUUID,        \* the checkpoint_uuid path argument, see UUIDs
    dbCheckpoint,   \* what the database holds for the checkpoint, see Checkpoints
    reqPc,          \* "start", "download", "close", "closing" (in writerPipe.Close), "end"
    reqRet,         \* what getCheckpoint returned, NoReturn before
    contentType,    \* the Content-Type header of the response, "" when not set
    reqLog          \* backend calls ("lookup", "list", "transfer") and the calls of
                    \* writerPipe.Close ("close") and Response.Flush ("flush"), in order

VARIABLES
    \* --- tarArchiveWriter, zipArchiveWriter ---
    awKind,         \* "tar" or "zip"
    zwContent,      \* zipArchiveWriter.zwContent: the entry it writes to, 0 for nil
    awEntries,      \* the entries the encoder has opened: header, body bytes taken
    awCalls,        \* number of WriteHeader and Write calls made
    awLast          \* the last call: arguments, the header handed on, result

VARIABLES
    \* --- one batchDownloadIterator called through its interface ---
    nextRet         \* what the last call of Next returned ("true", "false"), "none"
                    \* before the first call, "panic" when a call ended in a run-time panic

seqVars == <<written, seqDest, seqCalls, seqPresented, seqInOrder, seqReported, seqLast>>
delayVars == <<delayBytes, buf, bufNil, dwOut, dwCalls, dwAccepted, dwCrossAt, dwClosed,
               dwFailed, dwLast>>

seqGhostVars == <<seqDest, seqCalls, seqPresented, seqInOrder, seqReported, seqLast>>
closeVars == <<mimeType, closers, encState, closePc, closeI, closeLog, closeRet>>
iterVars == <<objects, pos, iterErr, iterPrefix>>
dlGhostVars == <<raised, archive, listed>>
dlVars == <<region, cancelled, storagePrefix, dPrefix, pc, pageNo, lastPage, iterVars, task, batchErrs, merr,
            awCall, lastHeader, result, dlGhostVars>>

reqVars == <<reqMime, reqUUID, dbCheckpoint, reqPc, reqRet, contentType, reqLog>>
archVars == <<awKind, zwContent, awEntries, awCalls, awLast>>
iterCallVars == <<nextRet>>
vars == <<seqVars, delayVars, closeVars, dlVars, reqVars, archVars, iterCallVars>>

\* the variables each component's actions leave alone
notSeqVars == <<delayVars, closeVars, dlVars, reqVars, archVars, iterCallVars>>
notDelayVars == <<seqVars, closeVars, dlVars, reqVars, archVars, iterCallVars>>
notPipeVars == <<seqVars, dlVars, reqVars, archVars, iterCallVars>>
notDlVars == <<seqGhostVars, delayVars, closeVars, reqVars, archVars, iterCallVars>>
notArchVars == <<seqVars, delayVars, closeVars, dlVars, reqVars, iterCallVars>>
notIterVars == <<seqGhostVars, delayVars, closeVars, reqVars, archVars>>

NoCall == [op |-> "none"]

\* ---------------------------------------------------------------------
\* delayWriter
\* ---------------------------------------------------------------------
\* newDelayWriter(w, delayBytes): buf is empty and not nil
NewDelayWriter(d) ==
    /\ delayBytes = d
    /\ buf = <<>>
    /\ bufNil = FALSE
    /\ dwOut = <<>>
    /\ dwCalls = 0
    /\ dwAccepted = <<>>
    /\ dwCrossAt = 0
    /\ dwClosed = 0
    /\ dwFailed = FALSE
    /\ dwLast = NoCall


\* if len(w.buf)+len(p) < w.delayBytes
DelayHolds_Mut(b, p, d) == Len(p) < d
DelayHolds(b, p, d) == Len(b) + Len(p) < d

\* w.buf = nil after the threshold flush
BufNilAfterFlush_Mut == FALSE
BufNilAfterFlush == TRUE

\* if err != nil after next.Write(w.buf), in Write
FlushErr_Mut(err) == FALSE
FlushErr(err) == err # ErrNil

\* if w.buf != nil && len(w.buf) > 0, in Close
CloseFlushes_Mut(b, isNil) == ~isNil
CloseFlushes(b, isNil) == ~isNil /\ Len(b) > 0

\* one call of next.Write(data) that returned out, made during call `at`
NextWrite(data, out, op, at) ==
    [data |-> data, n |-> out.n, err |-> out.err, op |-> op, at |-> at]

\* delayWriter.Write(p) on the state (b, isNil, d); oFlush and oFwd are what
\* next.Write returns for the buffered bytes and for p.  The result gives
\* the new buf, the calls made on next and the returned (n, err).
DelayWrite(b, isNil, d, p, oFlush, oFwd, at) ==
    IF ~isNil /\ DelayHolds(b, p, d)
    THEN [buf |-> b \o p, bufNil |-> FALSE, calls |-> <<>>, n |-> Len(p), err |-> ErrNil]
    ELSE IF ~isNil /\ FlushErr(oFlush.err)
    THEN [buf |-> IF BufNilAfterFlush THEN <<>> ELSE b, bufNil |-> BufNilAfterFlush,
          calls |-> <<NextWrite(b, oFlush, "Write", at)>>,
          n |-> 0, err |-> oFlush.err]
    ELSE [buf |-> IF isNil \/ BufNilAfterFlush THEN <<>> ELSE b,
          bufNil |-> isNil \/ BufNilAfterFlush,
          calls |-> (IF isNil THEN <<>> ELSE <<NextWrite(b, oFlush, "Write", at)>>)
                      \o <<NextWrite(p, oFwd, "Write", at)>>,
          n |-> oFwd.n, err |-> oFwd.err]

\* delayWriter.Close() on the state (b, isNil); oFlush is what next.Write
\* returns for the buffered bytes.  buf is left as it is.
DelayClose(b, isNil, oFlush, at) ==
    IF CloseFlushes(b, isNil)
    THEN [calls |-> <<NextWrite(b, oFlush, "Close", at)>>, err |-> oFlush.err]
    ELSE [calls |-> <<>>, err |-> ErrNil]

HasError(calls) == \E i \in 1..Len(calls) : calls[i].err # ErrNil

Write(p, oFlush, oFwd) ==
    LET r == DelayWrite(buf, bufNil, delayBytes, p, oFlush, oFwd, dwCalls + 1) IN
    /\ buf' = r.buf
    /\ bufNil' = r.bufNil
    /\ dwOut' = dwOut \o r.calls
    /\ dwCalls' = dwCalls + 1
    /\ dwAccepted' = dwAccepted \o p
    /\ dwCrossAt' = IF dwCrossAt = 0 /\ Len(dwAccepted) + Len(p) >= delayBytes
                    THEN dwCalls + 1 ELSE dwCrossAt
    /\ dwFailed' = (dwFailed \/ HasError(r.calls))
    /\ dwLast' = [op |-> "Write", p |-> p, n |-> r.n, err |-> r.err,
                  bufBefore |-> buf, nilBefore |-> bufNil, outBefore |-> Len(dwOut)]
    /\ UNCHANGED <<delayBytes, dwClosed>>

Close(oFlush) ==
    LET r == DelayClose(buf, bufNil, oFlush, dwClosed + 1) IN
    /\ dwOut' = dwOut \o r.calls
    /\ dwClosed' = dwClosed + 1
    /\ dwFailed' = (dwFailed \/ HasError(r.calls))
    /\ dwLast' = [op |-> "Close", p |-> <<>>, n |-> 0, err |-> r.err,
                  bufBefore |-> buf, nilBefore |-> bufNil, outBefore |-> Len(dwOut)]
    /\ UNCHANGED <<delayBytes, buf, bufNil, dwCalls, dwAccepted, dwCrossAt>>

\* a delayWriter is written to and then closed once
DelayWriterWrite ==
    /\ dwCalls < MaxWrites
    /\ dwClosed = 0
    /\ \E p \in Payloads :
          \E oFlush \in WriterOutcomes(buf), oFwd \in WriterOutcomes(p) : Write(p, oFlush, oFwd)
    /\ UNCHANGED notDelayVars

DelayWriterClose ==
    /\ dwClosed = 0
    /\ \E oFlush \in WriterOutcomes(buf) : Close(oFlush)
    /\ UNCHANGED notDelayVars

NextDelay == DelayWriterWrite \/ DelayWriterClose

\* ---------------------------------------------------------------------
\* seqWriterAt
\* ---------------------------------------------------------------------
\* newSeqWriterAt: written is the zero value
NewSeqWriterAt ==
    /\ written = 0
    /\ seqDest = <<>>
    /\ seqCalls = 0
    /\ seqPresented = <<>>
    /\ seqInOrder = TRUE
    /\ seqReported = 0
    /\ seqLast = NoCall

\* if off != w.written
SeqOutOfOrder_Mut(off, w) == off < w
SeqOutOfOrder(off, w) == off # w

\* w.written += int64(n)
SeqAdvance_Mut(w, n) == n
SeqAdvance(w, n) == w + n

\* the (n, err) WriteAt returns once next.Write returned out
SeqReturn(out) ==
    IF out.err # ErrNil THEN [n |-> 0, err |-> out.err] ELSE [n |-> out.n, err |-> out.err]

WriteAt(p, off, out) ==
    /\ seqCalls < MaxCalls
    /\ seqCalls' = seqCalls + 1
    /\ seqPresented' = seqPresented \o p
    /\ IF SeqOutOfOrder(off, written)
       THEN /\ UNCHANGED <<written, seqDest, seqReported>>
            /\ seqInOrder' = FALSE
            /\ seqLast' = [op |-> "WriteAt", p |-> p, off |-> off, forwarded |-> FALSE,
                           out |-> [n |-> 0, err |-> ErrNil],
                           n |-> 0, err |-> ErrOrder,
                           before |-> written, destBefore |-> seqDest]
       ELSE /\ seqDest' = seqDest \o SubSeq(p, 1, out.n)
            /\ written' = SeqAdvance(written, out.n)
            /\ seqReported' = seqReported + out.n
            /\ seqInOrder' = (seqInOrder /\ off = Len(seqPresented) /\ out.err = ErrNil)
            /\ seqLast' = [op |-> "WriteAt", p |-> p, off |-> off, forwarded |-> TRUE,
                           out |-> out,
                           n |-> SeqReturn(out).n, err |-> SeqReturn(out).err,
                           before |-> written, destBefore |-> seqDest]

SeqWriteAt ==
    /\ \E p \in Payloads, off \in 0..MaxOff :
          \E out \in WriterOutcomes(p) : WriteAt(p, off, out)
    /\ UNCHANGED notSeqVars

NextSeq == SeqWriteAt

\* ---------------------------------------------------------------------
\* buildWriterPipeline, archiveClosers
\* ---------------------------------------------------------------------
MIMEApplicationGZip == "application/gzip"
MIMEApplicationZip == "application/zip"

\* the closers: the delayWriter, gzip.Writer, tar.Writer, zip.Writer
Encoders == {"gz", "tw", "zw"}
ErrEncoder == "encoder"
ErrClosedTwice == "zip: writer closed twice"

\* closers as buildWriterPipeline appends them
PipelineClosers(mime) ==
    IF mime = MIMEApplicationGZip THEN <<"dw", "gz", "tw">> ELSE <<"dw", "zw">>

\* buildWriterPipeline(w, mimeType) for one of the two accepted types
BuildWriterPipeline(mime) ==
    /\ mimeType = mime
    /\ closers = PipelineClosers(mime)
    /\ encState = [c \in Encoders |-> "open"]
    /\ closePc = "idle"
    /\ closeI = -1
    /\ closeLog = <<>>
    /\ closeRet = <<>>

\* what an encoder gives the writer below it when it is first closed
Trailer == <<0>>

\* Close of an encoder that was closed before: tar.Writer and gzip.Writer
\* return nil, or the error they failed with; zip.Writer refuses
RepeatClose(c) ==
    IF encState[c] = "failed" THEN ErrEncoder
    ELSE IF c = "zw" THEN ErrClosedTwice ELSE ErrNil

\* for i := len(ac.closers) - 1
FirstIndex_Mut(cl) == Len(cl) - 2
FirstIndex(cl) == Len(cl) - 1

\* if err != nil { return err }
StopsAt_Mut(err) == FALSE
StopsAt(err) == err # ErrNil

\* bytes the encoders hand to the delayWriter while the archive is written;
\* the pipeline is only closed after a download in which no write failed
PipeWrite ==
    /\ closePc = "idle"
    /\ closeRet = <<>>
    /\ dwCalls < MaxPipeWrites
    /\ \E p \in Payloads \ {<<>>} :
          Write(p, [n |-> Len(buf), err |-> ErrNil], [n |-> Len(p), err |-> ErrNil])
    /\ UNCHANGED <<closeVars, notPipeVars>>

\* archiveClosers.Close is entered
ArchiveClose ==
    /\ closePc = "idle"
    /\ Len(closeRet) < MaxCloses
    /\ closePc' = "loop"
    /\ closeI' = FirstIndex(closers)
    /\ UNCHANGED <<mimeType, closers, encState, closeLog, closeRet, delayVars, notPipeVars>>

\* the rest of one loop iteration once ac.closers[i].Close() returned err
CloseReturned(c, err) ==
    /\ closeLog' = Append(closeLog, [closer |-> c, err |-> err, call |-> Len(closeRet) + 1])
    /\ IF StopsAt(err)
       THEN closePc' = "idle" /\ closeRet' = Append(closeRet, err) /\ closeI' = closeI
       ELSE IF closeI - 1 >= 0
       THEN closePc' = "loop" /\ closeRet' = closeRet /\ closeI' = closeI - 1
       ELSE closePc' = "idle" /\ closeRet' = Append(closeRet, ErrNil) /\ closeI' = closeI - 1
    /\ UNCHANGED <<mimeType, closers>>

\* ac.closers[i] is an encoder: its first Close writes its trailer to the
\* delayWriter, or fails before it does
CloseEncoder ==
    /\ closePc = "loop"
    /\ closeI >= 0
    /\ closers[closeI + 1] \in Encoders
    /\ LET c == closers[closeI + 1] IN
         IF encState[c] = "open"
         THEN \/ /\ encState' = [encState EXCEPT ![c] = "failed"]
                 /\ UNCHANGED delayVars
                 /\ CloseReturned(c, ErrEncoder)
              \/ \E oFlush \in WriterOutcomes(buf), oFwd \in WriterOutcomes(Trailer) :
                    LET r == DelayWrite(buf, bufNil, delayBytes, Trailer, oFlush, oFwd, 0) IN
                    /\ Write(Trailer, oFlush, oFwd)
                    /\ encState' = [encState EXCEPT ![c] = IF r.err = ErrNil THEN "closed" ELSE "failed"]
                    /\ CloseReturned(c, IF r.err = ErrNil THEN ErrNil ELSE ErrEncoder)
         ELSE /\ UNCHANGED <<encState, delayVars>>
              /\ CloseReturned(c, RepeatClose(c))
    /\ UNCHANGED notPipeVars

\* ac.closers[i] is the delayWriter
CloseDelayWriter ==
    /\ closePc = "loop"
    /\ closeI >= 0
    /\ closers[closeI + 1] = "dw"
    /\ \E oFlush \in WriterOutcomes(buf) :
          /\ Close(oFlush)
          /\ CloseReturned("dw", DelayClose(buf, bufNil, oFlush, 0).err)
    /\ UNCHANGED <<encState, notPipeVars>>

NextClose == PipeWrite \/ ArchiveClose \/ CloseEncoder \/ CloseDelayWriter

\* ---------------------------------------------------------------------
\* strings: a string is a sequence of one-character strings
\* ---------------------------------------------------------------------
\* strings.HasPrefix, strings.HasSuffix, strings.TrimPrefix
HasPrefix(s, p) == Len(s) >= Len(p) /\ SubSeq(s, 1, Len(p)) = p
HasSuffix(s, suf) == Len(s) >= Len(suf) /\ SubSeq(s, Len(s) - Len(suf) + 1, Len(s)) = suf
TrimPrefix(s, p) == IF HasPrefix(s, p) THEN SubSeq(s, Len(p) + 1, Len(s)) ELSE s

\* strings.TrimLeft(s, c) for a cutset of the one character c
RECURSIVE TrimLeft(_, _)
TrimLeft(s, c) == IF s # <<>> /\ s[1] = c THEN TrimLeft(Tail(s), c) ELSE s

Strings(chars, n) == UNION {[1..k -> chars] : k \in 0..n}

\* ---------------------------------------------------------------------
\* newDownloader, s3Downloader.download, batchDownloadIterator
\* ---------------------------------------------------------------------
\* the checkpoint UUID (it contains no "/"), and the prefixes an S3Config may carry
CheckpointUUID == <<"c">>
StoragePrefixes == {<<>>, <<"a">>, <<"/">>}

\* prefix: strings.TrimLeft(*storage.Prefix()+"/"+id, "/")
DownloaderPrefix(sp, id) == TrimLeft(sp \o <<"/">> \o id, "/")

\* if !strings.HasSuffix(prefix, "/") { prefix += "/" }
EffectivePrefix_Mut(prefix) == prefix \o <<"/">>
EffectivePrefix(prefix) == IF ~HasSuffix(prefix, <<"/">>) THEN prefix \o <<"/">> ELSE prefix

\* ListObjectsV2 with Prefix = d.prefix returns the keys that begin with d.prefix
ListedKeys(prefix) == {prefix \o x : x \in Strings({"/", "a"}, MaxSuffix)}
Objects(prefix) == [Key : ListedKeys(prefix), Size : 0..MaxSize]
Pages(prefix) == UNION {[1..n -> Objects(prefix)] : n \in 0..MaxObjects}

NoTask == [op |-> "none"]
ErrList == "list"
ErrHeader == "header"
ErrBatch == "BatchedDownloadIncomplete"
ErrTransfer == "transfer"
ErrDownload == "one or more errors encountered during checkpoint download"

\* pos: -1, in newBatchDownloadIterator
InitialPos == -1

\* newDownloader has built the s3Downloader; no listing page has been asked for
NewDownloader(sp) ==
    /\ storagePrefix = sp
    /\ dPrefix = DownloaderPrefix(sp, CheckpointUUID)
    /\ region = "unset"
    /\ cancelled = FALSE
    /\ pc = "region"
    /\ pageNo = 0
    /\ lastPage = FALSE
    /\ objects = <<>>
    /\ pos = InitialPos
    /\ iterErr = ErrNil
    /\ iterPrefix = <<>>
    /\ task = NoTask
    /\ batchErrs = <<>>
    /\ merr = <<>>
    /\ awCall = NoCall
    /\ lastHeader = NoCall
    /\ result = "none"
    /\ raised = <<>>
    /\ archive = [entries |-> 0, bytes |-> 0]
    /\ listed = [entries |-> 0, bytes |-> 0]
    /\ nextRet = "none"

\* merr = multierror.Append(merr, e)
AppendErr_Mut(m, e) == <<e>>
AppendErr(m, e) == Append(m, e)

\* if err != nil, for the error DownloadWithIterator returned
BatchFailed_Mut(errs) == FALSE
BatchFailed(errs) == errs # <<>>

\* return merr == nil
ContinuePaging_Mut(m) == TRUE
ContinuePaging(m) == m = <<>>

RECURSIVE SumSizes(_)
SumSizes(objs) == IF objs = <<>> THEN 0 ELSE objs[1].Size + SumSizes(Tail(objs))

Raise(err, page) == raised' = Append(raised, [err |-> err, page |-> page])

\* the end of download: merr != nil gives the aggregate error
Finish(m) ==
    /\ pc' = "done"
    /\ result' = IF m # <<>> THEN ErrDownload ELSE ErrNil

ErrLocation == "GetBucketLocation"
ErrSession == "NewSession"
ErrPanic == "panic: nil pointer dereference"
Region == "us-east-2"

\* what getS3BucketRegion returns when session.NewSession fails
SessionErrorResult == [region |-> "", err |-> ErrNil]

\* download leaves through one of its early returns, or by a panic
Leave(how, err) ==
    /\ pc' = how
    /\ result' = err
    /\ awCall' = NoCall
    /\ UNCHANGED <<cancelled, storagePrefix, dPrefix, pageNo, lastPage, iterVars, task,
                   batchErrs, merr, lastHeader, written, dlGhostVars, notDlVars>>

\* getS3BucketRegion: session.NewSession fails; download takes the returned
\* (region, err) as it takes any other
RegionSessionError ==
    /\ pc = "region"
    /\ region' = SessionErrorResult.region
    /\ IF SessionErrorResult.err # ErrNil
       THEN Leave("done", SessionErrorResult.err)
       ELSE Leave("session", result)

\* getS3BucketRegion: GetBucketLocationWithContext fails
RegionLocationError ==
    /\ pc = "region"
    /\ region' = ""
    /\ Leave("done", ErrLocation)

\* getS3BucketRegion: the location result has no LocationConstraint and
\* *out.LocationConstraint dereferences nil
RegionNilLocation ==
    /\ pc = "region"
    /\ ~cancelled
    /\ region' = region
    /\ Leave("panic", ErrPanic)

\* getS3BucketRegion returns the bucket's region
RegionResolved ==
    /\ pc = "region"
    /\ ~cancelled
    /\ region' = Region
    /\ Leave("session", result)

\* session.NewSession with the region: the session, or an error that
\* download returns
NewSession ==
    /\ pc = "session"
    /\ region' = region
    /\ \E err \in {ErrNil, ErrSession} :
          IF err # ErrNil THEN Leave("done", err) ELSE Leave("list", result)

\* the context of the request is cancelled while download waits in one of
\* its calls that take the context: the bucket-location call, the listing
\* call, the transfer of an object.  From then on these calls fail.
Cancel ==
    /\ ~cancelled
    /\ pc \in {"region", "list", "transfer"}
    /\ cancelled' = TRUE
    /\ awCall' = NoCall
    /\ UNCHANGED <<region, storagePrefix, dPrefix, pc, pageNo, lastPage, iterVars, task,
                   batchErrs, merr, lastHeader, result, written, dlGhostVars, notDlVars>>

\* the listing call fails: ListObjectsV2PagesWithContext returns an error
ListPageError ==
    /\ pc = "list"
    /\ merr' = AppendErr(merr, ErrList)
    /\ Finish(merr')
    /\ awCall' = NoCall
    /\ Raise(ErrList, pageNo + 1)
    /\ UNCHANGED <<region, cancelled, storagePrefix, dPrefix, pageNo, lastPage, iterVars, task, batchErrs,
                   lastHeader, written, archive, listed, notDlVars>>

\* the listing hands the next page to funcReadPage, which builds the
\* iterator (newBatchDownloadIterator) and calls DownloadWithIterator
ListPage ==
    /\ pc = "list"
    /\ ~cancelled
    /\ pageNo < MaxPages
    /\ \E page \in Pages(dPrefix), last \in BOOLEAN :
         /\ (pageNo + 1 = MaxPages => last)
         /\ objects' = page
         /\ lastPage' = last
         /\ listed' = [entries |-> listed.entries + Len(page),
                       bytes |-> listed.bytes + SumSizes(page)]
    /\ pageNo' = pageNo + 1
    /\ pos' = InitialPos
    /\ iterErr' = ErrNil
    /\ iterPrefix' = EffectivePrefix(dPrefix)
    /\ batchErrs' = <<>>
    /\ pc' = "next"
    /\ awCall' = NoCall
    /\ UNCHANGED <<region, cancelled, storagePrefix, dPrefix, task, merr, lastHeader, result,
                   written, raised, archive, notDlVars>>

\* DownloadWithIterator returns (a batch error when it collected errors) and
\* funcReadPage appends to merr and tells the listing whether to go on
EndPage(ierr, errs) ==
    /\ LET m1 == IF ierr # ErrNil THEN AppendErr(merr, ierr) ELSE merr IN
       merr' = IF BatchFailed(errs) THEN AppendErr(m1, ErrBatch) ELSE m1
    /\ IF ContinuePaging(merr') /\ ~lastPage
       THEN pc' = "list" /\ result' = result
       ELSE Finish(merr')

\* d.Concurrency = 1
Concurrency == 1

\* the offsets at which the storage client may make its next WriteAt call
\* when it has delivered the first `sent` bytes of an object: it works on
\* Concurrency parts (of one byte here) at a time
PartOffsets(sent, size) == {off \in sent..(sent + Concurrency - 1) : off < size}

\* DownloadWithIterator calls iter.Next() when no transfer is running: at
\* the start of a page and after the transfer of the object before returned
NextCalledWhen_Mut(p) == p \in {"next", "transfer"}
NextCalledWhen(p) == p = "next"

\* i.pos++
PosAfterNext_Mut(p) == p + 2
PosAfterNext(p) == p + 1

\* iter.Next() finds no further object
NextAtEnd ==
    /\ NextCalledWhen(pc)
    /\ pos' = PosAfterNext(pos)
    /\ pos' = Len(objects)
    /\ EndPage(iterErr, batchErrs)
    /\ awCall' = NoCall
    /\ UNCHANGED <<region, cancelled, storagePrefix, dPrefix, pageNo, lastPage, objects, iterErr, iterPrefix,
                   task, batchErrs, lastHeader, written, dlGhostVars, notDlVars>>

\* Bucket: &i.bucket in DownloadObject; the iterator's bucket is d.bucket,
\* the bucket of the listing (Bucket: &d.bucket)
Bucket == "bucket"

\* i.objects[i.pos] in DownloadObject
TaskIndex_Mut(p) == IF p > 0 THEN p - 1 ELSE p
TaskIndex(p) == p

\* Writer: newSeqWriterAt(i.aw) in DownloadObject; old is the counter of
\* the writer of the task before
TaskWriter_Mut(old) == [written |-> old]
TaskWriter(old) == [written |-> 0]

\* if err != nil after aw.WriteHeader: Next keeps the error and returns false
HeaderFailed_Mut(herr) == FALSE
HeaderFailed(herr) == herr # ErrNil

\* iter.Next() writes the header of the next object; when that succeeds
\* DownloadWithIterator takes the task from iter.DownloadObject(), which
\* carries a new seqWriterAt
NextObject ==
    /\ NextCalledWhen(pc)
    /\ pos' = PosAfterNext(pos)
    /\ pos' # Len(objects)
    /\ pos' + 1 \in DOMAIN objects
    /\ LET obj == objects[pos' + 1]
           pathname == TrimPrefix(obj.Key, iterPrefix) IN
       \E herr \in {ErrNil, ErrHeader} :
         /\ awCall' = [op |-> "WriteHeader", page |-> pageNo, idx |-> pos',
                       key |-> obj.Key, prefix |-> iterPrefix,
                       path |-> pathname, size |-> obj.Size, err |-> herr]
         /\ lastHeader' = [op |-> "WriteHeader", page |-> pageNo, idx |-> pos', err |-> herr]
         /\ IF HeaderFailed(herr)
            THEN /\ iterErr' = herr
                 /\ EndPage(iterErr', batchErrs)
                 /\ Raise(herr, pageNo)
                 /\ UNCHANGED <<task, written, archive>>
            ELSE /\ task' = [op |-> "download", bucket |-> Bucket,
                             key |-> objects[TaskIndex(pos') + 1].Key,
                             page |-> pageNo, idx |-> TaskIndex(pos'),
                             size |-> objects[TaskIndex(pos') + 1].Size, sent |-> 0]
                 /\ written' = TaskWriter(written).written
                 /\ pc' = "transfer"
                 /\ archive' = [archive EXCEPT !.entries = @ + 1]
                 /\ UNCHANGED <<iterErr, merr, result, raised>>
    /\ UNCHANGED <<region, cancelled, storagePrefix, dPrefix, pageNo, lastPage, objects, iterPrefix, batchErrs,
                   listed, notDlVars>>

\* the end of one transfer: DownloadWithIterator collects the error, if any,
\* drops the task and goes on to iter.Next()
TransferEnds(err) ==
    /\ batchErrs' = (IF err # ErrNil THEN Append(batchErrs, err) ELSE batchErrs)
    /\ IF err # ErrNil THEN Raise(err, pageNo) ELSE UNCHANGED raised
    /\ task' = NoTask
    /\ pc' = "next"

\* the transfer makes one WriteAt call of one byte on the task's writer, at
\* the offset the storage client has reached in the object (task.sent); the
\* archive writer takes the byte or fails, and a failed WriteAt ends the
\* transfer with an error
TransferWriteAt ==
    /\ pc = "transfer"
    /\ ~cancelled
    /\ task.sent < task.size
    /\ \E off \in PartOffsets(task.sent, task.size), out \in WriterOutcomes(<<0>>) :
         IF SeqOutOfOrder(off, written)
         THEN /\ TransferEnds(ErrOrder)
              /\ awCall' = NoCall
              /\ UNCHANGED <<written, archive>>
         ELSE /\ awCall' = [op |-> "Write", page |-> task.page, idx |-> task.idx,
                            off |-> off, err |-> out.err]
              /\ written' = SeqAdvance(written, out.n)
              /\ archive' = [archive EXCEPT !.bytes = @ + out.n]
              /\ IF out.err # ErrNil
                 THEN TransferEnds(out.err)
                 ELSE /\ task' = [task EXCEPT !.sent = @ + out.n]
                      /\ UNCHANGED <<batchErrs, pc, raised>>
    /\ UNCHANGED <<region, cancelled, storagePrefix, dPrefix, pageNo, lastPage, iterVars, merr, lastHeader,
                   result, listed, notDlVars>>

\* after a failed read of the object's body the storage client starts the
\* part again and calls WriteAt at offset 0; with bytes already written the
\* writer refuses and the transfer ends with that error
TransferRetryWriteAt ==
    /\ pc = "transfer"
    /\ ~cancelled
    /\ task.sent > 0
    /\ IF SeqOutOfOrder(0, written)
       THEN /\ TransferEnds(ErrOrder)
            /\ awCall' = NoCall
            /\ UNCHANGED <<written, archive>>
       ELSE /\ awCall' = [op |-> "Write", page |-> task.page, idx |-> task.idx,
                          off |-> 0, err |-> ErrNil]
            /\ written' = SeqAdvance(written, 1)
            /\ archive' = [archive EXCEPT !.bytes = @ + 1]
            /\ task' = [task EXCEPT !.sent = 1]
            /\ UNCHANGED <<batchErrs, pc, raised>>
    /\ UNCHANGED <<region, cancelled, storagePrefix, dPrefix, pageNo, lastPage, iterVars, merr, lastHeader,
                   result, listed, notDlVars>>

\* the transfer has written the whole object
TransferDone ==
    /\ pc = "transfer"
    /\ ~cancelled
    /\ task.sent = task.size
    /\ TransferEnds(ErrNil)
    /\ awCall' = NoCall
    /\ UNCHANGED <<region, cancelled, storagePrefix, dPrefix, pageNo, lastPage, iterVars, merr,
                   lastHeader, result, written, archive, listed, notDlVars>>

\* the transfer fails in the storage client (request error, cancelled context)
TransferFail ==
    /\ pc = "transfer"
    /\ TransferEnds(ErrTransfer)
    /\ awCall' = NoCall
    /\ UNCHANGED <<region, cancelled, storagePrefix, dPrefix, pageNo, lastPage, iterVars, merr,
                   lastHeader, result, written, archive, listed, notDlVars>>

Next ==
    \/ RegionSessionError
    \/ RegionLocationError
    \/ RegionNilLocation
    \/ RegionResolved
    \/ NewSession
    \/ Cancel
    \/ ListPage
    \/ ListPageError
    \/ NextAtEnd
    \/ NextObject
    \/ TransferWriteAt
    \/ TransferRetryWriteAt
    \/ TransferDone
    \/ TransferFail

\* ---------------------------------------------------------------------
\* batchDownloadIterator behind s3manager.BatchDownloadIterator: one
\* iterator, its methods called in any order
\* ---------------------------------------------------------------------
\* newBatchDownloadIterator(aw, d.bucket, d.prefix, objs) in funcReadPage, for
\* the downloader newDownloader built from the storage prefix sp and for
\* the page objs of its listing
NewBatchDownloadIterator(sp, objs) ==
    /\ storagePrefix = sp
    /\ dPrefix = DownloaderPrefix(sp, CheckpointUUID)
    /\ region = Region
    /\ cancelled = FALSE
    /\ pc = "next"
    /\ pageNo = 1
    /\ lastPage = TRUE
    /\ objects = objs
    /\ pos = InitialPos
    /\ iterErr = ErrNil
    /\ iterPrefix = EffectivePrefix(dPrefix)
    /\ task = NoTask
    /\ batchErrs = <<>>
    /\ merr = <<>>
    /\ awCall = NoCall
    /\ lastHeader = NoCall
    /\ result = "none"
    /\ raised = <<>>
    /\ archive = [entries |-> 0, bytes |-> 0]
    /\ listed = [entries |-> Len(objs), bytes |-> SumSizes(objs)]
    /\ nextRet = "none"

\* i.objects[p] is an element of the slice; any other index is a run-time
\* panic (index out of range)
InRange(p, objs) == p >= 0 /\ p < Len(objs)

\* Next(), lines 206-218
IterNext ==
    /\ nextRet # "panic"
    /\ pos' = PosAfterNext(pos)
    /\ IF pos' = Len(objects)
       THEN /\ nextRet' = "false"
            /\ awCall' = NoCall
            /\ UNCHANGED <<iterErr, lastHeader, archive>>
       ELSE IF ~InRange(pos', objects)
       THEN /\ nextRet' = "panic"
            /\ awCall' = NoCall
            /\ UNCHANGED <<iterErr, lastHeader, archive>>
       ELSE LET obj == objects[pos' + 1]
                pathname == TrimPrefix(obj.Key, iterPrefix) IN
            \E herr \in {ErrNil, ErrHeader} :
              /\ awCall' = [op |-> "WriteHeader", page |-> pageNo, idx |-> pos',
                            key |-> obj.Key, prefix |-> iterPrefix,
                            path |-> pathname, size |-> obj.Size, err |-> herr]
              /\ lastHeader' = [op |-> "WriteHeader", page |-> pageNo, idx |-> pos', err |-> herr]
              /\ iterErr' = IF HeaderFailed(herr) THEN herr ELSE iterErr
              /\ nextRet' = IF HeaderFailed(herr) THEN "false" ELSE "true"
              /\ archive' = IF HeaderFailed(herr) THEN archive
                            ELSE [archive EXCEPT !.entries = @ + 1]
    /\ UNCHANGED <<region, cancelled, storagePrefix, dPrefix, pc, pageNo, lastPage, objects,
                   iterPrefix, task, batchErrs, merr, result, raised, listed, written,
                   notIterVars>>

\* DownloadObject(), lines 226-234
IterDownloadObject ==
    /\ nextRet # "panic"
    /\ IF InRange(TaskIndex(pos), objects)
       THEN /\ task' = [op |-> "download", bucket |-> Bucket,
                        key |-> objects[TaskIndex(pos) + 1].Key,
                        page |-> pageNo, idx |-> TaskIndex(pos),
                        size |-> objects[TaskIndex(pos) + 1].Size, sent |-> 0]
            /\ written' = TaskWriter(written).written
            /\ nextRet' = nextRet
       ELSE /\ nextRet' = "panic"
            /\ UNCHANGED <<task, written>>
    /\ awCall' = NoCall
    /\ UNCHANGED <<region, cancelled, storagePrefix, dPrefix, pc, pageNo, lastPage, iterVars,
                   batchErrs, merr, lastHeader, result, dlGhostVars, notIterVars>>

NextIter == IterNext \/ IterDownloadObject

\* ---------------------------------------------------------------------
\* tarArchiveWriter, zipArchiveWriter
\* ---------------------------------------------------------------------
\* paths and sizes WriteHeader is called with
PathChars == {"a", "/"}
Paths == Strings(PathChars, MaxPath)

Mode0666 == "0666"
Mode0777 == "0777"

\* hdr.Mode: 0666, and 0777 when strings.HasSuffix(path, "/")
TarMode_Mut(path) == Mode0666
TarMode(path) == IF HasSuffix(path, <<"/">>) THEN Mode0777 ELSE Mode0666

\* the tar.Header that tarArchiveWriter.WriteHeader hands to tw.WriteHeader
TarHeader(path, size) == [Name |-> path, Mode |-> TarMode(path), Size |-> size]

\* aw.zwContent == nil
ZipDiscards(zwc) == zwc = 0

\* aw.zwContent = zwc
ActiveSink_Mut(old, new) == IF old = 0 THEN new ELSE old
ActiveSink(old, new) == new

\* an archive writer of either variant, nothing written yet; zwContent is
\* the index of the entry aw.zwContent writes to, 0 for nil
NewArchiveWriter(kind) ==
    /\ awKind = kind
    /\ zwContent = 0
    /\ awEntries = <<>>
    /\ awCalls = 0
    /\ awLast = NoCall

\* tarArchiveWriter.WriteHeader(path, size): tw.WriteHeader(&hdr) takes the
\* header or fails
TarWriteHeader ==
    /\ awKind = "tar"
    /\ awCalls < MaxAwCalls
    /\ \E path \in Paths, size \in 0..MaxSize, err \in {ErrNil, ErrEncoder} :
         LET hdr == TarHeader(path, size) IN
         /\ awEntries' = IF err = ErrNil
                         THEN Append(awEntries, [hdr |-> hdr, body |-> <<>>])
                         ELSE awEntries
         /\ awLast' = [op |-> "WriteHeader", path |-> path, size |-> size, hdr |-> hdr,
                       err |-> err]
    /\ awCalls' = awCalls + 1
    /\ UNCHANGED <<awKind, zwContent, notArchVars>>

\* what the encoder does with Write(p) for the entry at index i: without an
\* entry it refuses; otherwise it takes p or fails after part of it
EntryWrite(i, p, out) ==
    IF i = 0
    THEN [entries |-> awEntries, n |-> 0, err |-> ErrEncoder]
    ELSE [entries |-> [awEntries EXCEPT ![i].body = @ \o SubSeq(p, 1, out.n)],
          n |-> out.n, err |-> out.err]

\* tarArchiveWriter.Write(p): tw.Write(p), which writes to the entry of the
\* last header
TarWrite ==
    /\ awKind = "tar"
    /\ awCalls < MaxAwCalls
    /\ \E p \in Payloads \ {<<>>} : \E out \in WriterOutcomes(p) :
         LET r == EntryWrite(Len(awEntries), p, out) IN
         /\ awEntries' = r.entries
         /\ awLast' = [op |-> "Write", p |-> p, n |-> r.n, err |-> r.err]
    /\ awCalls' = awCalls + 1
    /\ UNCHANGED <<awKind, zwContent, notArchVars>>

\* zipArchiveWriter.WriteHeader(path, size): zw.Create(path) opens a new
\* entry and gives its writer, or fails
ZipWriteHeader ==
    /\ awKind = "zip"
    /\ awCalls < MaxAwCalls
    /\ \E path \in Paths, size \in 0..MaxSize, err \in {ErrNil, ErrEncoder} :
         /\ awEntries' = IF err = ErrNil
                         THEN Append(awEntries, [hdr |-> [Name |-> path], body |-> <<>>])
                         ELSE awEntries
         /\ zwContent' = IF err = ErrNil
                         THEN ActiveSink(zwContent, Len(awEntries'))
                         ELSE zwContent
         /\ awLast' = [op |-> "WriteHeader", path |-> path, size |-> size, err |-> err]
    /\ awCalls' = awCalls + 1
    /\ UNCHANGED <<awKind, notArchVars>>

\* zipArchiveWriter.Write(p)
ZipWrite ==
    /\ awKind = "zip"
    /\ awCalls < MaxAwCalls
    /\ \E p \in Payloads \ {<<>>} : \E out \in WriterOutcomes(p) :
         LET r == IF ZipDiscards(zwContent)
                  THEN [entries |-> awEntries, n |-> 0, err |-> ErrNil]
                  ELSE EntryWrite(zwContent, p, out) IN
         /\ awEntries' = r.entries
         /\ awLast' = [op |-> "Write", p |-> p, n |-> r.n, err |-> r.err]
    /\ awCalls' = awCalls + 1
    /\ UNCHANGED <<awKind, zwContent, notArchVars>>

NextAw == TarWriteHeader \/ TarWrite \/ ZipWriteHeader \/ ZipWrite

\* ---------------------------------------------------------------------
\* Master.getCheckpoint, getCheckpointStorageConfig, newDownloader
\* ---------------------------------------------------------------------
\* the mimeType argument: the two routes pass the two accepted types; any
\* other value stands for the default branch of buildWriterPipeline
MIMETextPlain == "text/plain"
MimeTypes == {MIMEApplicationGZip, MIMEApplicationZip, MIMETextPlain}

\* the checkpoint_uuid path argument: bound and parsable; not bound by
\* api.BindArgs; bound but rejected by uuid.Parse
UUIDs == {"ok", "unbound", "unparsable"}

\* the union member of a CheckpointStorageConfig
StorageKinds == {"AzureConfig", "GCSConfig", "HDFSConfig", "S3Config", "SharedFSConfig"}

\* what the database holds for the checkpoint: CheckpointByUUID fails
\* ("error"), finds no row ("missing"), finds a row whose experiment config
\* does not marshal or parse ("malformed"), or a row with a storage kind
Checkpoints == {"error", "missing", "malformed"} \cup StorageKinds

StatusBadRequest == 400
StatusNotFound == 404
StatusInternalServerError == 500
StatusNotImplemented == 501

\* what getCheckpoint returns
NoReturn == [kind |-> "none", code |-> 0, msg |-> ""]
NilReturn == [kind |-> "nil", code |-> 0, msg |-> ""]
HTTPError(code, msg) == [kind |-> "HTTPError", code |-> code, msg |-> msg]
PlainError(err) == [kind |-> "error", code |-> 0, msg |-> err]

ErrDB == "db"
ErrParse == "parse"
NilConfig == "nil"

StorageConfig2Str_Mut(kind) == "unknown"
StorageConfig2Str(kind) ==
    CASE kind = "AzureConfig" -> "azure"
      [] kind = "GCSConfig" -> "gcs"
      [] kind = "HDFSConfig" -> "hdfs"
      [] kind = "S3Config" -> "s3"
      [] kind = "SharedFSConfig" -> "shared_fs"
      [] OTHER -> "unknown"

\* getCheckpointStorageConfig: (nil, err), (nil, nil) or (config, nil)
GetCheckpointStorageConfig(db) ==
    IF db = "error" THEN [cfg |-> NilConfig, err |-> ErrDB]
    ELSE IF db = "missing" THEN [cfg |-> NilConfig, err |-> ErrNil]
    ELSE IF db = "malformed" THEN [cfg |-> NilConfig, err |-> ErrParse]
    ELSE [cfg |-> db, err |-> ErrNil]

\* the two tests getCheckpoint makes on what getCheckpointStorageConfig
\* returned: err != nil first, storageConfig == nil second
LookupError_Mut(r) ==
    IF r.cfg = NilConfig THEN HTTPError(StatusNotFound, "does not exist")
    ELSE IF r.err # ErrNil
    THEN HTTPError(StatusInternalServerError, "unable to retrieve experiment config")
    ELSE NoReturn
LookupError(r) ==
    IF r.err # ErrNil
    THEN HTTPError(StatusInternalServerError, "unable to retrieve experiment config")
    ELSE IF r.cfg = NilConfig THEN HTTPError(StatusNotFound, "does not exist")
    ELSE NoReturn

\* the error of buildWriterPipeline, as getCheckpoint returns it
PipelineError(mime) ==
    IF mime \in {MIMEApplicationGZip, MIMEApplicationZip} THEN NoReturn
    ELSE HTTPError(StatusBadRequest, "MIME type must be")

\* the error of newDownloader
DownloaderError(kind) ==
    IF kind = "S3Config" THEN NoReturn
    ELSE HTTPError(StatusNotImplemented, StorageConfig2Str(kind))

\* c.Response().Header().Set(echo.HeaderContentType, mimeType)
ContentTypeFor_Mut(mime) == MIMEApplicationGZip
ContentTypeFor(mime) == mime

\* getCheckpoint up to the call of downloader.download: the error it
\* returns (NoReturn when it goes on), the backend calls made, the
\* Content-Type header set and whether the pipeline was built
Resolve(uuid, db, mime) ==
    LET none == [err |-> NoReturn, calls |-> <<>>, contentType |-> "", built |-> FALSE]
        looked == [none EXCEPT !.calls = <<"lookup">>]
        headed == [looked EXCEPT !.contentType = ContentTypeFor(mime)]
        r == GetCheckpointStorageConfig(db) IN
    IF uuid = "unbound"
    THEN [none EXCEPT !.err = HTTPError(StatusBadRequest, "invalid checkpoint_uuid")]
    ELSE IF uuid = "unparsable"
    THEN [none EXCEPT !.err = HTTPError(StatusBadRequest, "unable to parse checkpoint UUID")]
    ELSE IF LookupError(r) # NoReturn
    THEN [looked EXCEPT !.err = LookupError(r)]
    ELSE IF PipelineError(mime) # NoReturn
    THEN [headed EXCEPT !.err = PipelineError(mime)]
    ELSE [headed EXCEPT !.err = DownloaderError(r.cfg), !.built = TRUE]

\* writerPipe.Close() is reached only when neither newDownloader nor
\* download returned an error
ClosesAfter_Mut(err) == TRUE
ClosesAfter(err) == err = NoReturn

\* no pipeline yet
NoPipeline ==
    /\ mimeType = ""
    /\ closers = <<>>
    /\ encState = [c \in Encoders |-> "open"]
    /\ closePc = "idle"
    /\ closeI = -1
    /\ closeLog = <<>>
    /\ closeRet = <<>>

\* one request reaches getCheckpoint
NewRequest(mime, uuid, db) ==
    /\ reqMime = mime
    /\ reqUUID = uuid
    /\ dbCheckpoint = db
    /\ reqPc = "start"
    /\ reqRet = NoReturn
    /\ contentType = ""
    /\ reqLog = <<>>

Count(e, log) == Cardinality({i \in 1..Len(log) : log[i] = e})

\* bytes next.Write calls of the delayWriter put on the response
RECURSIVE OutBytes(_)
OutBytes(calls) == IF calls = <<>> THEN 0 ELSE calls[1].n + OutBytes(Tail(calls))

\* getCheckpoint returns err; with a pipeline that is to be closed first it
\* goes through Close
ReturnOrClose(err, built) ==
    IF built /\ ClosesAfter(err)
    THEN reqPc' = "close" /\ reqRet' = err
    ELSE reqPc' = "end" /\ reqRet' = err

\* getCheckpoint from its entry to the call of downloader.download
GetCheckpoint ==
    /\ reqPc = "start"
    /\ LET r == Resolve(reqUUID, dbCheckpoint, reqMime) IN
         /\ reqLog' = reqLog \o r.calls
         /\ contentType' = r.contentType
         /\ mimeType' = IF r.built THEN reqMime ELSE mimeType
         /\ closers' = IF r.built THEN PipelineClosers(reqMime) ELSE closers
         /\ IF r.err = NoReturn
            THEN reqPc' = "download" /\ reqRet' = reqRet
            ELSE ReturnOrClose(r.err, r.built)
    /\ UNCHANGED <<reqMime, reqUUID, dbCheckpoint, encState, closePc, closeI, closeLog,
                   closeRet, delayVars, seqVars, dlVars, archVars, iterCallVars>>

\* download requests one listing page
DownloadList ==
    /\ reqPc = "download"
    /\ Count("list", reqLog) < MaxPages
    /\ reqLog' = Append(reqLog, "list")
    /\ UNCHANGED <<reqMime, reqUUID, dbCheckpoint, reqPc, reqRet, contentType,
                   closeVars, delayVars, seqVars, dlVars, archVars, iterCallVars>>

\* download transfers part of a listed object: the encoders hand bytes to
\* the delayWriter
DownloadTransfer ==
    /\ reqPc = "download"
    /\ Count("list", reqLog) > 0
    /\ ~dwFailed
    /\ dwCalls < MaxPipeWrites
    /\ \E p \in Payloads \ {<<>>} :
          \E oFlush \in WriterOutcomes(buf), oFwd \in WriterOutcomes(p) : Write(p, oFlush, oFwd)
    /\ reqLog' = Append(reqLog, "transfer")
    /\ UNCHANGED <<reqMime, reqUUID, dbCheckpoint, reqPc, reqRet, contentType,
                   closeVars, seqVars, dlVars, archVars, iterCallVars>>

\* downloader.download returns: nil after at least one listing page and no
\* failed write, or an error
DownloadReturns ==
    /\ reqPc = "download"
    /\ \E ok \in BOOLEAN :
          /\ ok => Count("list", reqLog) > 0 /\ ~dwFailed
          /\ IF ok
             THEN ReturnOrClose(NoReturn, TRUE)
             ELSE ReturnOrClose(HTTPError(StatusInternalServerError,
                                          "unable to download checkpoint"), TRUE)
    /\ UNCHANGED <<reqMime, reqUUID, dbCheckpoint, contentType, reqLog,
                   closeVars, delayVars, seqVars, dlVars, archVars, iterCallVars>>

\* getCheckpoint calls writerPipe.Close()
PipelineClose ==
    /\ reqPc = "close"
    /\ closePc = "idle"
    /\ closePc' = "loop"
    /\ closeI' = FirstIndex(closers)
    /\ reqPc' = "closing"
    /\ reqLog' = Append(reqLog, "close")
    /\ UNCHANGED <<reqMime, reqUUID, dbCheckpoint, reqRet, contentType, mimeType, closers,
                   encState, closeLog, closeRet, delayVars, seqVars, dlVars, archVars, iterCallVars>>

\* if err != nil after writerPipe.Close()
CloseFailed_Mut(err) == FALSE
CloseFailed(err) == err # ErrNil

\* writerPipe.Close() returned: its error is returned as it is, otherwise
\* the response is flushed and getCheckpoint returns nil
PipelineClosed ==
    /\ reqPc = "closing"
    /\ closePc = "idle"
    /\ closeRet # <<>>
    /\ reqPc' = "end"
    /\ IF reqRet # NoReturn
       THEN UNCHANGED <<reqRet, reqLog>>
       ELSE IF CloseFailed(closeRet[1])
       THEN reqRet' = PlainError(closeRet[1]) /\ reqLog' = reqLog
       ELSE reqRet' = NilReturn /\ reqLog' = Append(reqLog, "flush")
    /\ UNCHANGED <<reqMime, reqUUID, dbCheckpoint, contentType, closeVars, delayVars,
                   seqVars, dlVars, archVars, iterCallVars>>

NextReq ==
    \/ GetCheckpoint
    \/ DownloadList
    \/ DownloadTransfer
    \/ DownloadReturns
    \/ PipelineClose
    \/ CloseEncoder
    \/ CloseDelayWriter
    \/ PipelineClosed

\* ---------------------------------------------------------------------
\* Specifications
\* ---------------------------------------------------------------------
\* one seqWriterAt and its destination
InitSeq ==
    /\ NewSeqWriterAt
    /\ NewDelayWriter(1)
    /\ BuildWriterPipeline(MIMEApplicationGZip)
    /\ NewDownloader(<<>>)
    /\ NewRequest(MIMEApplicationGZip, "ok", "S3Config")
    /\ NewArchiveWriter("tar")

SpecSeq == InitSeq /\ [][NextSeq]_vars

\* one delayWriter, built with any delayBytes, and its destination
InitDelay ==
    /\ \E d \in 1..MaxDelayBytes : NewDelayWriter(d)
    /\ NewSeqWriterAt
    /\ BuildWriterPipeline(MIMEApplicationGZip)
    /\ NewDownloader(<<>>)
    /\ NewRequest(MIMEApplicationGZip, "ok", "S3Config")
    /\ NewArchiveWriter("tar")

SpecDelay == InitDelay /\ [][NextDelay]_vars

\* one pipeline built by buildWriterPipeline for either accepted type;
\* the threshold 16*1024 is scaled down to 1..MaxDelayBytes
InitClose ==
    /\ \E mime \in {MIMEApplicationGZip, MIMEApplicationZip} : BuildWriterPipeline(mime)
    /\ \E d \in 1..MaxDelayBytes : NewDelayWriter(d)
    /\ NewSeqWriterAt
    /\ NewDownloader(<<>>)
    /\ NewRequest(MIMEApplicationGZip, "ok", "S3Config")
    /\ NewArchiveWriter("tar")

SpecClose == InitClose /\ [][NextClose]_vars

\* one request in getCheckpoint, with any content type, path argument and
\* database content; the threshold 16*1024 is scaled down to 1..MaxDelayBytes
InitReq ==
    /\ \E mime \in MimeTypes, uuid \in UUIDs, db \in Checkpoints : NewRequest(mime, uuid, db)
    /\ NoPipeline
    /\ \E d \in 1..MaxDelayBytes : NewDelayWriter(d)
    /\ NewSeqWriterAt
    /\ NewDownloader(<<>>)
    /\ NewArchiveWriter("tar")

SpecReq == InitReq /\ [][NextReq]_vars

\* one archive writer of either variant, driven by any caller
InitAw ==
    /\ \E kind \in {"tar", "zip"} : NewArchiveWriter(kind)
    /\ NewSeqWriterAt
    /\ NewDelayWriter(1)
    /\ BuildWriterPipeline(MIMEApplicationGZip)
    /\ NewDownloader(<<>>)
    /\ NewRequest(MIMEApplicationGZip, "ok", "S3Config")

SpecAw == InitAw /\ [][NextAw]_vars

\* one batchDownloadIterator over any page, its methods called in any order
InitIter ==
    /\ \E sp \in StoragePrefixes :
          \E objs \in Pages(DownloaderPrefix(sp, CheckpointUUID)) :
             NewBatchDownloadIterator(sp, objs)
    /\ NewSeqWriterAt
    /\ NewDelayWriter(1)
    /\ BuildWriterPipeline(MIMEApplicationGZip)
    /\ NewRequest(MIMEApplicationGZip, "ok", "S3Config")
    /\ NewArchiveWriter("tar")

SpecIter == InitIter /\ [][NextIter]_vars

\* one download by an s3Downloader that newDownloader built
Init ==
    /\ \E sp \in StoragePrefixes : NewDownloader(sp)
    /\ NewSeqWriterAt
    /\ NewDelayWriter(1)
    /\ BuildWriterPipeline(MIMEApplicationGZip)
    /\ NewRequest(MIMEApplicationGZip, "ok", "S3Config")
    /\ NewArchiveWriter("tar")

Spec == Init /\ [][Next]_vars

\* C1: when every WriteAt call so far had an offset equal to the sum of
\* the lengths of the previous calls and the destination took every write
\* in full, the destination holds exactly the presented bytes, in call
\* order, and the counter equals the number of bytes forwarded.
C1_InOrderDelivery ==
    seqInOrder =>
        /\ seqDest = seqPresented
        /\ written = Len(seqDest)
        /\ (seqLast.op = "WriteAt" => seqLast.err = ErrNil /\ seqLast.n = Len(seqLast.p))

C1_Witness ==
    /\ seqInOrder
    /\ seqCalls = 3
    /\ Len(seqDest) >= 4
    /\ seqLast.off >= 2

\* C2: a WriteAt whose offset differs from the counter (smaller or larger)
\* returns the ordering-violation error, forwards nothing and leaves the
\* counter unchanged.
C2_OutOfOrderRejected ==
    (seqLast.op = "WriteAt" /\ seqLast.off # seqLast.before) =>
        /\ seqLast.err = ErrOrder
        /\ seqLast.n = 0
        /\ ~seqLast.forwarded
        /\ seqDest = seqLast.destBefore
        /\ written = seqLast.before

C2_Witness ==
    /\ seqLast.op = "WriteAt"
    /\ seqLast.off > seqLast.before
    /\ seqLast.before > 0
    /\ seqLast.err = ErrOrder

\* C3: a WriteAt with a matching offset whose forward fails returns the
\* error and does not advance the counter, also when the destination
\* reports that it wrote some bytes before failing.
C3_ForwardErrorKeepsCounter ==
    (seqLast.op = "WriteAt" /\ seqLast.off = seqLast.before /\ seqLast.out.err # ErrNil) =>
        /\ seqLast.err = seqLast.out.err
        /\ written = seqLast.before

\* the bytes requested of next.Write over all its calls, in order
RECURSIVE Requested(_)
Requested(calls) ==
    IF calls = <<>> THEN <<>> ELSE Requested(SubSeq(calls, 1, Len(calls) - 1)) \o calls[Len(calls)].data

\* C6: while the Writes total fewer bytes than delayBytes, next receives no
\* write before Close; Close makes exactly one write, of all the bytes, and
\* no write at all when there are none.
C6_ShortPayloadOneWriteAtClose ==
    Len(dwAccepted) < delayBytes =>
        /\ (dwClosed = 0 => dwOut = <<>>)
        /\ (dwClosed = 1 /\ Len(dwAccepted) > 0 =>
               /\ Len(dwOut) = 1
               /\ dwOut[1].op = "Close"
               /\ dwOut[1].data = dwAccepted)
        /\ (dwClosed = 1 /\ Len(dwAccepted) = 0 => dwOut = <<>>)

C6_Witness ==
    /\ dwClosed = 1
    /\ dwCalls = 2
    /\ Len(dwAccepted) = 2
    /\ delayBytes = 3
    /\ Len(dwOut) = 1

\* C7: with a destination that never fails, the first write on next is made
\* during the Write call that brings the accepted bytes to delayBytes or
\* more, not earlier, and after Close next has been given exactly the
\* accepted bytes.
C7_LongPayloadFirstWriteAtThreshold ==
    ~dwFailed =>
        /\ (dwCrossAt = 0 /\ dwClosed = 0 => dwOut = <<>>)
        /\ (dwCrossAt > 0 =>
               /\ dwOut # <<>>
               /\ dwOut[1].op = "Write"
               /\ dwOut[1].at = dwCrossAt)
        /\ (dwCrossAt > 0 /\ dwClosed = 1 => Requested(dwOut) = dwAccepted)

C7_Witness ==
    /\ ~dwFailed
    /\ dwClosed = 1
    /\ dwCrossAt = 2
    /\ dwCalls = 3
    /\ Len(dwAccepted) > delayBytes

\* C8: the Write that brings the buffered size to delayBytes flushes the
\* buffered bytes in one write and sets buf to nil; from then on buf stays
\* nil, every Write is forwarded as one write of the same bytes, and Close
\* writes nothing.
C8_PassThroughForGood ==
    [][ /\ (bufNil => bufNil' /\ buf' = <<>>)
        /\ (dwCalls' = dwCalls + 1 /\ ~bufNil /\ Len(buf) + Len(dwLast'.p) >= delayBytes =>
               /\ bufNil' /\ buf' = <<>>
               /\ Len(dwOut') > Len(dwOut)
               /\ dwOut'[Len(dwOut) + 1].data = buf
               /\ \A i \in (Len(dwOut) + 2)..Len(dwOut') : i = Len(dwOut) + 2 /\ dwOut'[i].data = dwLast'.p)
        /\ (dwCalls' = dwCalls + 1 /\ bufNil =>
               /\ Len(dwOut') = Len(dwOut) + 1
               /\ dwOut'[Len(dwOut')].data = dwLast'.p)
        /\ (dwClosed' = dwClosed + 1 /\ bufNil => dwOut' = dwOut)
      ]_vars

C8_Witness ==
    /\ dwLast.op = "Close"
    /\ dwLast.nilBefore
    /\ dwCalls = 3
    /\ Len(dwOut) = 3
    /\ Len(dwOut[1].data) > 0
    /\ dwClosed = 1

\* the Close calls made on the closers during the k-th archiveClosers.Close
CallLog(k) == SelectSeq(closeLog, LAMBDA e : e.call = k)

\* reverse of the order in which buildWriterPipeline acquires the closers
ReverseAcquisition ==
    IF mimeType = MIMEApplicationGZip THEN <<"tw", "gz", "dw">> ELSE <<"zw", "dw">>

\* C9: every archiveClosers.Close closes tar, gzip, delay buffer (or zip,
\* delay buffer) in that order, stops at the first closer that returns an
\* error, returns that error and closes none of the closers acquired
\* earlier than the failing one.
C9_ReverseOrderStopAtFirstError ==
    \A k \in 1..(Len(closeRet) + 1) :
        LET L == CallLog(k) IN
        /\ Len(L) <= Len(ReverseAcquisition)
        /\ \A j \in 1..Len(L) : L[j].closer = ReverseAcquisition[j]
        /\ \A j \in 1..(Len(L) - 1) : L[j].err = ErrNil
        /\ (k <= Len(closeRet) =>
               /\ L # <<>>
               /\ closeRet[k] = L[Len(L)].err
               /\ (closeRet[k] = ErrNil => Len(L) = Len(ReverseAcquisition)))
        /\ (k > Len(closeRet) => (closePc = "loop" => Len(L) < Len(ReverseAcquisition)))

C9_Witness ==
    /\ mimeType = MIMEApplicationGZip
    /\ Len(closeRet) = 1
    /\ closeRet[1] # ErrNil
    /\ Len(closeLog) = 2
    /\ closeLog[2].closer = "gz"
    /\ dwClosed = 0

\* C10: after an archiveClosers.Close that returned nil, a further Close
\* gives the output stream no more bytes; the remainder held by the delay
\* buffer is not written a second time.
C10_SecondCloseWritesNothing ==
    [][ (Len(closeRet) >= 1 /\ closeRet[1] = ErrNil) => dwOut' = dwOut ]_vars

\* C4: the path of every WriteHeader call is the object's key with the
\* effective prefix (the constructed prefix, ended with "/") removed, and is
\* neither empty nor begins with "/".
C4_EntryPathIsKeyLessPrefix ==
    awCall.op = "WriteHeader" =>
        /\ IF HasPrefix(awCall.key, EffectivePrefix(dPrefix))
           THEN awCall.key = EffectivePrefix(dPrefix) \o awCall.path
           ELSE awCall.key = awCall.path
        /\ awCall.path # <<>>
        /\ awCall.path[1] # "/"

\* C5: the WriteHeader calls follow the listing: the first is for the first
\* object of a page, each later one for the next object of the same page or
\* the first object of a later page; and every body Write is for the object
\* of the last WriteHeader call, which succeeded.
C5_HeadersInListingOrderBodiesFollow ==
    [][ /\ (awCall'.op = "WriteHeader" =>
               /\ lastHeader' = [op |-> "WriteHeader", page |-> awCall'.page,
                                 idx |-> awCall'.idx, err |-> awCall'.err]
               /\ awCall'.key = objects'[awCall'.idx + 1].Key
               /\ awCall'.page = pageNo'
               /\ IF lastHeader.op = "none"
                  THEN awCall'.idx = 0
                  ELSE \/ awCall'.page = lastHeader.page /\ awCall'.idx = lastHeader.idx + 1
                       \/ awCall'.page > lastHeader.page /\ awCall'.idx = 0)
        /\ (awCall'.op = "Write" =>
               /\ lastHeader' = lastHeader
               /\ lastHeader.op = "WriteHeader"
               /\ lastHeader.err = ErrNil
               /\ awCall'.page = lastHeader.page
               /\ awCall'.idx = lastHeader.idx)
      ]_vars

C5_Witness ==
    /\ awCall.op = "Write"
    /\ awCall.page = 2
    /\ awCall.idx = 1
    /\ lastHeader.page = 2
    /\ lastHeader.idx = 1
    /\ Len(objects) = 2

\* ---------------------------------------------------------------------------
\* Claims about the errors download collects

IsTransferError(e) == e \in {ErrTransfer, ErrOrder, ErrIO}
InSeq(e, s) == \E j \in 1..Len(s) : s[j] = e
RaisedTransfers == {i \in 1..Len(raised) : IsTransferError(raised[i].err)}

\* C11: a download that got to paging returns nil exactly when no error arose
\* during paging;
\* otherwise it returns the one aggregate error, and every error that arose
\* is in it: a listing error and an iterator error as members of merr, a
\* transfer error as a member of the batch error, which is a member of merr.
\* No transfer error is missing from the batch error.
C11_AggregateHoldsEveryError ==
    (pc = "done" /\ result \notin {ErrLocation, ErrSession}) =>
        /\ (result = ErrNil) <=> (raised = <<>>)
        /\ result # ErrNil => result = ErrDownload /\ merr # <<>>
        /\ \A i \in 1..Len(raised) :
             IF IsTransferError(raised[i].err)
             THEN InSeq(ErrBatch, merr) /\ InSeq(raised[i].err, batchErrs)
             ELSE InSeq(raised[i].err, merr)
        /\ Cardinality(RaisedTransfers) = Len(batchErrs)
        /\ \A j \in 1..Len(merr) :
             \E i \in 1..Len(raised) :
                merr[j] = IF IsTransferError(raised[i].err) THEN ErrBatch ELSE raised[i].err

\* a page left both an iterator error and a batch error, and download failed
C11_Witness ==
    /\ pc = "done"
    /\ result = ErrDownload
    /\ InSeq(ErrHeader, merr)
    /\ InSeq(ErrBatch, merr)
    /\ Len(batchErrs) = 1

\* C12: once a page has left an error, no later page is requested and no
\* header or body byte of a later page reaches the archive writer; and a
\* download that got to paging and ends with the accumulator empty has read
\* every page to the last one, and that one to its end.
C12_PagingStopsAfterFirstFailedPage ==
    [][ /\ pageNo' # pageNo => raised = <<>> /\ merr = <<>>
        /\ merr # <<>> => pc = "done" /\ awCall' = NoCall /\ objects' = objects /\ pos' = pos
        /\ \A i \in 1..Len(raised') :
             /\ pageNo' <= raised'[i].page
             /\ awCall' # NoCall => awCall'.page <= raised'[i].page
        /\ (pc' = "done" /\ merr' = <<>> /\ result' \notin {ErrLocation, ErrSession}) =>
              lastPage' /\ pos' = Len(objects')
      ]_vars

\* the first page failed although the listing had more pages
C12_Witness ==
    /\ pc = "done"
    /\ merr # <<>>
    /\ pageNo = 1
    /\ ~lastPage
    /\ archive.entries > 0

\* C13: after the transfer of one object of a page has failed, no header is
\* written and no download task is issued for the remaining objects of that
\* page.
C13_TransferFailureStopsPage ==
    [][ batchErrs # <<>> => awCall' = NoCall /\ task' = NoTask ]_vars

\* C14: when WriteHeader fails for the object at the iterator's new position,
\* the iterator keeps that error (Err returns it) and Next returns false: no
\* download task is issued for that object, nor a header or a task for any
\* later object of the page. What the archive writer has taken before stays:
\* its entries and bytes never decrease, and the failing step leaves them as
\* they were.
C14_HeaderFailureEndsPage ==
    [][ /\ (awCall'.op = "WriteHeader" /\ awCall'.err # ErrNil) =>
              /\ iterErr' = awCall'.err
              /\ pos' = awCall'.idx
              /\ task' = NoTask
              /\ pc' # "transfer"
              /\ archive' = archive
        /\ iterErr # ErrNil => awCall' = NoCall /\ task' = NoTask /\ pos' = pos
        /\ archive'.entries >= archive.entries
        /\ archive'.bytes >= archive.bytes
      ]_vars

\* the header of a page's second object failed after the first object's
\* header and body went into the archive
C14_Witness ==
    /\ iterErr = ErrHeader
    /\ lastHeader.err = ErrHeader
    /\ pos = 1
    /\ task = NoTask
    /\ archive.entries >= 1
    /\ archive.bytes >= 1

\* C15: when the first page went through without an error (the second page
\* was listed) and the transfer of the single object of the second page
\* fails, download fails with the aggregate error; the aggregate holds one
\* error, the batch error, which holds the one failed transfer; and the
\* archive writer has taken every entry of the first page, header and body.
C15_SecondPageFailureAfterFirstPageArchived ==
    (/\ pc = "done"
     /\ pageNo = 2
     /\ Len(objects) = 1
     /\ iterErr = ErrNil
     /\ batchErrs # <<>>) =>
        /\ result = ErrDownload
        /\ merr = <<ErrBatch>>
        /\ Len(batchErrs) = 1
        /\ Len(raised) = 1
        /\ raised[1].page = 2
        /\ archive.entries = listed.entries
        /\ archive.bytes >= listed.bytes - objects[1].Size

\* a first page of two objects with a body went into the archive and the one
\* object of the second page failed
C15_Witness ==
    /\ pc = "done"
    /\ pageNo = 2
    /\ Len(objects) = 1
    /\ Len(batchErrs) = 1
    /\ result = ErrDownload
    /\ listed.entries = 3
    /\ archive.bytes >= 1

\* ---------------------------------------------------------------------------
\* Claims about the request handler

BackendCalls == {i \in 1..Len(reqLog) : reqLog[i] \in {"lookup", "list", "transfer"}}

\* C16: a request whose content type is neither application/gzip nor
\* application/zip ends with a bad-request error, whatever the checkpoint
\* identifier refers to, and no backend call was made for it: no metadata
\* lookup, no listing call, no transfer call.
C16_BadContentTypeRejectedBeforeBackend ==
    (reqPc = "end" /\ reqMime \notin {MIMEApplicationGZip, MIMEApplicationZip}) =>
        /\ reqRet.kind = "HTTPError"
        /\ reqRet.code = StatusBadRequest
        /\ BackendCalls = {}

AcceptedMime == reqMime \in {MIMEApplicationGZip, MIMEApplicationZip}

\* C17: a request with a valid identifier and an accepted content type whose
\* checkpoint is stored on azure, gcs, hdfs or shared_fs ends with a
\* not-implemented error whose message names that kind; no listing call and
\* no transfer call was made and no byte was written to the response.
C17_UnsupportedBackendNotImplemented ==
    (/\ reqPc = "end"
     /\ reqUUID = "ok"
     /\ AcceptedMime
     /\ dbCheckpoint \in StorageKinds \ {"S3Config"}) =>
        /\ reqRet.kind = "HTTPError"
        /\ reqRet.code = StatusNotImplemented
        /\ dbCheckpoint = "AzureConfig" => reqRet.msg = "azure"
        /\ dbCheckpoint = "GCSConfig" => reqRet.msg = "gcs"
        /\ dbCheckpoint = "HDFSConfig" => reqRet.msg = "hdfs"
        /\ dbCheckpoint = "SharedFSConfig" => reqRet.msg = "shared_fs"
        /\ Count("list", reqLog) = 0
        /\ Count("transfer", reqLog) = 0
        /\ OutBytes(dwOut) = 0

\* a checkpoint on shared_fs was asked for as a zip
C17_Witness ==
    /\ reqPc = "end"
    /\ dbCheckpoint = "SharedFSConfig"
    /\ reqMime = MIMEApplicationZip
    /\ reqRet.code = StatusNotImplemented
    /\ reqRet.msg = "shared_fs"

\* C18: with a valid identifier, the request ends with not-found exactly
\* when the lookup found no checkpoint, and with the internal error of the
\* lookup exactly when the lookup failed or the stored configuration could
\* not be read; the two are never exchanged.
C18_NotFoundAndLookupErrorDistinct ==
    (reqPc = "end" /\ reqUUID = "ok") =>
        /\ (dbCheckpoint = "missing") <=>
              (reqRet.kind = "HTTPError" /\ reqRet.code = StatusNotFound)
        /\ (dbCheckpoint \in {"error", "malformed"}) <=>
              (/\ reqRet.kind = "HTTPError"
               /\ reqRet.code = StatusInternalServerError
               /\ reqRet.msg = "unable to retrieve experiment config")
        /\ dbCheckpoint \in {"missing", "error", "malformed"} => reqLog = <<"lookup">>

\* the stored configuration of an existing checkpoint could not be parsed
C18_Witness ==
    /\ reqPc = "end"
    /\ dbCheckpoint = "malformed"
    /\ reqRet.code = StatusInternalServerError
    /\ reqLog = <<"lookup">>

\* the request ended before download was called
EndedBeforeDownload ==
    /\ reqPc = "end"
    /\ reqRet.kind = "HTTPError"
    /\ reqRet.msg # "unable to download checkpoint"

\* C19: a request that ends with a validation error (identifier, content
\* type) or a resolution error (not found, lookup failure, unsupported
\* kind) has written no byte to the response when the error is returned.
C19_NoOutputOnValidationOrResolutionError ==
    EndedBeforeDownload => OutBytes(dwOut) = 0 /\ dwOut = <<>> /\ dwCalls = 0

\* the pipeline was built, with the smallest threshold, and the request
\* ended on the unsupported kind
C19_Witness ==
    /\ EndedBeforeDownload
    /\ closers # <<>>
    /\ delayBytes = 1
    /\ contentType = MIMEApplicationGZip
    /\ reqRet.code = StatusNotImplemented

\* C20 as stated: every request that built the pipeline has called its
\* Close exactly once when it ends, after a successful and after a failed
\* download alike.
C20_ClosedExactlyOnceAlways ==
    (reqPc = "end" /\ closers # <<>>) => Count("close", reqLog) = 1

\* C20, amended: a request that built the pipeline calls its Close exactly
\* once when download returned nil, and not at all when newDownloader or
\* download returned an error; Close is never called twice.
C20_ClosedOnceOnSuccessOnly ==
    /\ Count("close", reqLog) <= 1
    /\ dwClosed <= 1
    /\ (reqPc = "end" /\ closers # <<>>) =>
          Count("close", reqLog) = IF reqRet.kind = "HTTPError" THEN 0 ELSE 1
    /\ closers = <<>> => Count("close", reqLog) = 0

\* download failed after bytes had reached the response, and the request
\* ended without Close
C20_Witness ==
    /\ reqPc = "end"
    /\ reqRet.msg = "unable to download checkpoint"
    /\ OutBytes(dwOut) > 0
    /\ Count("close", reqLog) = 0

\* C21: a request that returns nil has called writerPipe.Close and then
\* Response.Flush, in that order and as its last two calls, and Close
\* returned nil; when Close returned an error after a successful download,
\* that error is what the request returns, and the response is not flushed.
C21_CloseThenFlushCloseErrorIsResult ==
    (reqPc = "end" /\ reqRet.kind # "HTTPError") =>
        /\ Len(closeRet) = 1
        /\ Count("close", reqLog) = 1
        /\ closeRet[1] = ErrNil =>
              /\ reqRet = NilReturn
              /\ Len(reqLog) >= 2
              /\ reqLog[Len(reqLog) - 1] = "close"
              /\ reqLog[Len(reqLog)] = "flush"
              /\ Count("flush", reqLog) = 1
        /\ closeRet[1] # ErrNil =>
              /\ reqRet = PlainError(closeRet[1])
              /\ Count("flush", reqLog) = 0

\* the transfer succeeded with bytes written and Close failed
C21_Witness ==
    /\ reqPc = "end"
    /\ reqRet.kind = "error"
    /\ Count("transfer", reqLog) > 0
    /\ ~dwFailed
    /\ Count("flush", reqLog) = 0

\* ---------------------------------------------------------------------------
\* Claims about region resolution and cancellation

\* C22: every failure of region resolution (the lookup session cannot be
\* created, the bucket-location call fails, the location result has no
\* region) ends the download, with an error, before any listing call and
\* before any header or byte goes to the archive writer; the download never
\* goes on with an empty region.
C22_RegionFailureIsFatal ==
    (region = "" \/ pc = "panic") =>
        /\ pc \in {"done", "panic"}
        /\ result \notin {"none", ErrNil}
        /\ pageNo = 0
        /\ raised = <<>>
        /\ listed.entries = 0
        /\ archive = [entries |-> 0, bytes |-> 0]

\* C23: once the context is cancelled, no further header is written and no
\* further download task is issued, no further page is handed out, and the
\* download ends with an error.
C23_CancellationAbortsPage ==
    [][ cancelled =>
          /\ awCall' = NoCall
          /\ task' = NoTask
          /\ pageNo' = pageNo
          /\ pc' = "done" => result' \notin {"none", ErrNil}
      ]_vars

\* ---------------------------------------------------------------------------
\* Claims about the archive writers

\* C24: zip variant.  A Write made before any successful WriteHeader returns
\* 0 and no error and leaves the encoder as it was; a Write made after one
\* goes to the entry opened by the most recent successful WriteHeader: that
\* entry takes the bytes the call reports, every other entry stays the same.
C24_ZipWriteGoesToActiveEntry ==
    [][ (awKind = "zip" /\ awCalls' = awCalls + 1 /\ awLast'.op = "Write") =>
          IF awEntries = <<>>
          THEN /\ awLast'.n = 0
               /\ awLast'.err = ErrNil
               /\ awEntries' = awEntries
          ELSE LET k == Len(awEntries) IN
               /\ Len(awEntries') = k
               /\ \A i \in 1..(k - 1) : awEntries'[i] = awEntries[i]
               /\ awEntries'[k].hdr = awEntries[k].hdr
               /\ awEntries'[k].body = awEntries[k].body \o SubSeq(awLast'.p, 1, awLast'.n)
      ]_vars

\* after two headers a Write put bytes into the second entry
C24_Witness ==
    /\ awKind = "zip"
    /\ awLast.op = "Write"
    /\ Len(awEntries) = 2
    /\ awEntries[1].body = <<>>
    /\ awEntries[2].body # <<>>

\* C25: tar variant.  The header WriteHeader(path, size) hands to the tar
\* encoder has the name path, the size size, and the mode 0777 when path
\* ends with "/" and 0666 otherwise; the encoder opens an entry with exactly
\* that header, or fails and opens none.
C25_TarHeaderNameSizeMode ==
    [][ (awKind = "tar" /\ awCalls' = awCalls + 1 /\ awLast'.op = "WriteHeader") =>
          LET path == awLast'.path
              hdr == awLast'.hdr IN
          /\ hdr.Name = path
          /\ hdr.Size = awLast'.size
          /\ hdr.Mode = IF path # <<>> /\ path[Len(path)] = "/" THEN "0777" ELSE "0666"
          /\ awEntries' = IF awLast'.err = ErrNil
                          THEN Append(awEntries, [hdr |-> hdr, body |-> <<>>])
                          ELSE awEntries
      ]_vars

\* a directory path with a size went into the tar as 0777
C25_Witness ==
    /\ awKind = "tar"
    /\ awLast.op = "WriteHeader"
    /\ awLast.err = ErrNil
    /\ awLast.path = <<"a", "/">>
    /\ awLast.size = 1
    /\ awEntries[Len(awEntries)].hdr = [Name |-> <<"a", "/">>, Mode |-> "0777", Size |-> 1]

\* ---------------------------------------------------------------------------
\* Claims about the writer of a download task

\* C26: every download task gets a new seqWriterAt with counter 0, so while
\* an object is transferred the counter is the number of bytes of that
\* object alone; every Write that reaches the archive writer was made at the
\* offset the storage client had reached in that object, and the first
\* WriteAt of an object, at offset 0, is never refused as out of order,
\* however many bytes earlier objects wrote.
C26_FreshWriterPerTask ==
    [][ /\ (pc = "next" /\ pc' = "transfer") => written' = 0 /\ task'.sent = 0
        /\ pc' = "transfer" => written' = task'.sent
        /\ awCall'.op = "Write" => awCall'.off = task.sent /\ awCall'.off = written
        /\ (pc = "transfer" /\ task.sent = 0 /\ Len(raised') > Len(raised)) =>
              raised'[Len(raised')].err # ErrOrder
      ]_vars

\* the second object of a page had its first byte taken at offset 0 after
\* the first object wrote a byte
C26_Witness ==
    /\ awCall.op = "Write"
    /\ awCall.idx = 1
    /\ awCall.off = 0
    /\ awCall.err = ErrNil
    /\ archive.bytes = 2
    /\ written = 1

\* C27: the download concurrency is 1 and transfers write to the archive
\* writer one at a time: while a task is active no other task is issued and
\* no header is written, a task is active exactly while an object is being
\* transferred, and every body byte that reaches the archive writer belongs
\* to the active task, whose header was the last one written, and arrives at
\* the offset the writer's counter has reached.
C27_OneTransferAtATime ==
    [][ /\ Concurrency = 1
        /\ task # NoTask => task' = NoTask \/ (task'.page = task.page /\ task'.idx = task.idx)
        /\ (task' # NoTask) <=> (pc' = "transfer")
        /\ awCall'.op = "WriteHeader" => task = NoTask
        /\ awCall'.op = "Write" =>
              /\ task # NoTask
              /\ awCall'.page = task.page /\ awCall'.idx = task.idx
              /\ lastHeader.page = task.page /\ lastHeader.idx = task.idx
              /\ awCall'.off = written
      ]_vars

\* the second object of a page is being transferred after the first one
\* was written in full
C27_Witness ==
    /\ pc = "transfer"
    /\ task.idx = 1
    /\ task.sent = 1
    /\ lastHeader.idx = 1
    /\ archive = [entries |-> 2, bytes |-> 2]

\* ---------------------------------------------------------------------------
\* Claims about the response

\* C28: whenever the pipeline has been given a byte, and so whenever a byte
\* of the archive has reached the response, the Content-Type header of the
\* response is the type of the endpoint: application/gzip for the tar+gzip
\* endpoint and application/zip for the zip endpoint.
C28_ContentTypeBeforeFirstByte ==
    (dwCalls > 0 \/ dwClosed > 0 \/ dwOut # <<>> \/ reqPc \in {"download", "close", "closing"}) =>
        /\ AcceptedMime
        /\ contentType = reqMime
        /\ mimeType = reqMime

\* bytes of a zip archive have reached the response
C28_Witness ==
    /\ reqMime = MIMEApplicationZip
    /\ contentType = MIMEApplicationZip
    /\ OutBytes(dwOut) > 0
    /\ reqPc = "download"

\* C29: when download fails while the delayWriter has accepted fewer bytes
\* than its threshold, no byte has reached the response when getCheckpoint
\* returns the internal error, and the pipeline has not been closed.
C29_NoOutputWhenDownloadFailsBelowThreshold ==
    (/\ reqPc = "end"
     /\ reqRet.msg = "unable to download checkpoint"
     /\ Len(dwAccepted) < delayBytes) =>
        /\ dwOut = <<>>
        /\ OutBytes(dwOut) = 0
        /\ Count("close", reqLog) = 0
        /\ dwClosed = 0
        /\ reqRet = HTTPError(StatusInternalServerError, "unable to download checkpoint")

\* download failed with bytes held in the buffer
C29_Witness ==
    /\ reqPc = "end"
    /\ reqRet.msg = "unable to download checkpoint"
    /\ dwAccepted # <<>>
    /\ Len(dwAccepted) < delayBytes
    /\ buf = dwAccepted

\* ---------------------------------------------------------------------------
\* Claims about the listing prefix

\* C30: every object whose header goes into the archive has a key that
\* begins with the prefix of the checkpoint ended by "/", the prefix the
\* iterator strips: the listing brings in no object of another key space
\* whose name only starts with the same characters.
C30_StreamedKeysUnderEffectivePrefix ==
    awCall.op = "WriteHeader" =>
        /\ awCall.prefix = dPrefix \o <<"/">>
        /\ HasPrefix(awCall.key, awCall.prefix)

\* C31: once Next has returned false, every later call of Next on the same
\* iterator returns false again, writes no header and does not fault, and
\* the position stays within the page (at most the element count).
C31_EndIsTerminal ==
    [][(nextRet = "false" /\ pos' # pos)
         => (nextRet' = "false" /\ awCall' = NoCall /\ pos' <= Len(objects))]_vars

\* the bytes the destination took in the calls made on it, in call order
RECURSIVE Delivered(_)
Delivered(calls) ==
    IF calls = <<>> THEN <<>>
    ELSE SubSeq(calls[1].data, 1, calls[1].n) \o Delivered(Tail(calls))

IsPrefixOf(s, t) == Len(s) <= Len(t) /\ SubSeq(t, 1, Len(s)) = s

C33_CounterIsReportedSum ==
    /\ written = seqReported
    /\ seqLast # NoCall => written >= seqLast.before

\* several calls, the last one forwarded and failed after the destination
\* had taken part of it
C33_Witness ==
    /\ seqCalls >= 2
    /\ seqLast # NoCall
    /\ seqLast.forwarded
    /\ seqLast.out.err # ErrNil
    /\ seqLast.out.n > 0
    /\ seqLast.before > 0
    /\ written = seqLast.before + seqLast.out.n

\* C34: a download task is only produced by the step in which Next wrote a
\* header successfully, and it names the bucket of the listing and the key
\* (page and index) of the object of that header; a Next whose header
\* write failed produces no task.
C34_TaskPairedWithHeader ==
    [][ /\ (task = NoTask /\ task' # NoTask) =>
              /\ awCall'.op = "WriteHeader"
              /\ awCall'.err = ErrNil
              /\ awCall'.page = task'.page
              /\ awCall'.idx = task'.idx
              /\ awCall'.key = task'.key
              /\ task'.key = objects[pos' + 1].Key
              /\ task'.bucket = Bucket
        /\ (task # NoTask /\ task' # NoTask) =>
              /\ task'.key = task.key /\ task'.bucket = task.bucket
              /\ awCall'.op # "WriteHeader"
        /\ (awCall'.op = "WriteHeader" /\ awCall'.err # ErrNil) => task' = NoTask
      ]_vars

\* the task of the second object of the second page, whose key differs
\* from the first object's, right after its header was written
C34_Witness ==
    /\ pageNo = 2
    /\ task # NoTask
    /\ task.idx = 1
    /\ task.key = objects[2].Key
    /\ objects[1].Key # objects[2].Key
    /\ awCall.op = "WriteHeader"
    /\ awCall.err = ErrNil
    /\ awCall.key = task.key

\* the threshold flush (the first call a Write makes on the destination)
\* has failed
FlushFailed == dwOut # <<>> /\ dwOut[1].op = "Write" /\ dwOut[1].err # ErrNil

\* C35: the Write whose threshold flush fails returns that error with 0
\* bytes and makes no other call on the destination; from then on the
\* buffer is gone: each later Write makes exactly one call on the
\* destination, with its own bytes, and Close makes none.
C35_FailedFlushDropsBuffer ==
    [][ /\ (FlushFailed' /\ ~FlushFailed) =>
              /\ dwLast'.op = "Write"
              /\ dwLast'.n = 0
              /\ dwLast'.err = dwOut'[1].err
              /\ dwOut' = <<NextWrite(buf, [n |-> dwOut'[1].n, err |-> dwOut'[1].err],
                                      "Write", dwCalls')>>
              /\ bufNil' /\ buf' = <<>>
        /\ FlushFailed =>
              /\ bufNil' /\ buf' = <<>>
              /\ dwLast'.op = "Write" =>
                    /\ Len(dwOut') = Len(dwOut) + 1
                    /\ SubSeq(dwOut', 1, Len(dwOut)) = dwOut
                    /\ dwOut'[Len(dwOut')].data = dwLast'.p
              /\ dwLast'.op = "Close" => dwOut' = dwOut /\ dwLast'.err = ErrNil
      ]_vars

\* bytes were buffered, the flush failed, a later Write went through and
\* the writer was closed
C35_Witness ==
    /\ FlushFailed
    /\ dwOut[1].data # <<>>
    /\ Len(dwOut) = 2
    /\ dwOut[2].data # <<>>
    /\ dwClosed = 1
    /\ dwLast.op = "Close"

\* C36: the prefix newDownloader builds from the storage prefix, "/" and
\* the checkpoint identifier never begins with "/"; the prefix the
\* iterator keeps ends with "/", it is the downloader's prefix with a "/"
\* added only when that did not end with one, and normalising it again
\* leaves it as it is.  The two functions are also applied to every
\* storage prefix of up to MaxPath characters.
C36_PrefixConstruction ==
    /\ dPrefix = DownloaderPrefix(storagePrefix, CheckpointUUID)
    /\ ~HasPrefix(dPrefix, <<"/">>)
    /\ pageNo > 0 =>
          /\ HasSuffix(iterPrefix, <<"/">>)
          /\ iterPrefix = IF HasSuffix(dPrefix, <<"/">>) THEN dPrefix ELSE dPrefix \o <<"/">>
          /\ EffectivePrefix(iterPrefix) = iterPrefix
    /\ \A sp \in Paths :
          LET built == DownloaderPrefix(sp, CheckpointUUID) IN
          /\ ~HasPrefix(built, <<"/">>)
          /\ HasSuffix(EffectivePrefix(built), <<"/">>)
          /\ EffectivePrefix(EffectivePrefix(built)) = EffectivePrefix(built)
          /\ EffectivePrefix(sp \o <<"/">>) = sp \o <<"/">>

\* a storage prefix "/": its leading separators are trimmed from the
\* downloader's prefix, and an iterator was built for a page
C36_Witness ==
    /\ storagePrefix = <<"/">>
    /\ dPrefix = CheckpointUUID
    /\ pageNo > 0
    /\ objects # <<>>
    /\ iterPrefix = CheckpointUUID \o <<"/">>

====
